---- MODULE Spec2Model ----
(***************************************************************************)
(* The UF2 flasher of the PicoCalc SD loader (ui/uf2.c) and the program-   *)
(* info record (proginfo.c), as a state machine.                           *)
(*                                                                         *)
(* Units.  Addresses are kept in units of one flash page (256 bytes): the  *)
(* address a page number p stands for is 256 * p.  A block's target_addr   *)
(* is the pair (target_pg, target_off) with target_addr = 256 * target_pg  *)
(* + target_off; every arithmetic step of the flasher happens after the    *)
(* alignment check, so target_off = 0 there and the 32-bit arithmetic of   *)
(* the code on byte addresses is arithmetic modulo 2^24 on page numbers.   *)
(* A uint32_t is represented by an integer congruent to it modulo 2^32.    *)
(*                                                                         *)
(* Flash contents.  A page of flash is the record [d, magic]: magic is a   *)
(* 2-bit image of the bytes of the page that lie at the offset of the      *)
(* proginfo slot within a page, d a 2-bit image of all other bytes.  An    *)
(* erased cell is all ones (3); programming ANDs the buffer into the cell. *)
(* flash_end is the word of the page at the offset of bl_info_t.flash_end,  *)
(* as a page number (all ones when erased), ANDed bit by bit.               *)
(*                                                                         *)
(* Besides the flasher (Spec) the module holds three smaller machines:     *)
(* SpecBuf applies bl_proginfo_clear / bl_proginfo_set to buffers of       *)
(* bytes, SpecBoot runs stage3 and the boot command kept in the watchdog   *)
(* scratch registers, SpecOld is the flasher revision that keeps prog_info *)
(* in a sector of its own.                                                 *)
(***************************************************************************)
EXTENDS Integers, Sequences, FiniteSets, TLC

\* ---------------------------------------------------------------- bounds
\* Sectors of application space below flash_end, and sectors of flash
\* above flash_end (the loader on RP2040).
AppSectors == 2
LoaderSectors == 1
\* Blocks read from files, and load() calls, in one run of the model.
MaxReads == 3
MaxLoads == 2
\* Largest block_no / ordinary num_blocks a block of the input carries.
MaxBlk == 2

\* ------------------------------------------------------ program constants
FLASH_PAGE_SIZE == 256
FLASH_SECTOR_SIZE == 4096
BOOT2_SIZE == 256
\* XIP_BASE (0x10000000) as a page number
XIP_BASE == 1048576
\* number of pages in the 32-bit address space: arithmetic wraps here
AddrPages == 16777216
\* target_addr of the RP2350-E10 workaround block (0x10FFFF00), page number
E10_ADDR == 1114111
\* byte offset of the vector-table hole from XIP_BASE, and size of bl_info_t
VECTOR_HOLE_OFFSET(p) == IF p = "RP2040" THEN 272 ELSE 32
SizeofBlInfo(p) == IF p = "RP2040" THEN 28 ELSE 8
\* 2-bit images: an erased cell, the live magic, any other word
ERASED == 3
PICOCALC_BL_MAGIC == 1

PagesPerSector == FLASH_SECTOR_SIZE \div FLASH_PAGE_SIZE
NPages == (AppSectors + LoaderSectors) * PagesPerSector
\* flash_end handed over by stage3 (bl_info_set_flash_end), page number
FlashEndPg == XIP_BASE + AppSectors * PagesPerSector

Platforms == {"RP2040", "RP2350"}

\* --------------------------------------------------------- NOR semantics
\* bitwise AND of two 2-bit cells
And2(a, c) == (a % 2) * (c % 2) + 2 * ((a \div 2) * (c \div 2))

\* bitwise AND of two words
RECURSIVE BitAnd(_, _)
BitAnd(a, c) ==
    IF a = 0 \/ c = 0 THEN 0
    ELSE (a % 2) * (c % 2) + 2 * BitAnd(a \div 2, c \div 2)

ErasedPage == [d |-> ERASED, magic |-> ERASED, flash_end |-> AddrPages - 1]

AndPage(old, new) ==
    [d |-> And2(old.d, new.d), magic |-> And2(old.magic, new.magic),
     flash_end |-> BitAnd(old.flash_end, new.flash_end)]

\* ------------------------------------------------------------- proginfo
\* byte address of the proginfo struct
PICOCALC_PROGINFO_ADDR(p) == XIP_BASE * FLASH_PAGE_SIZE + VECTOR_HOLE_OFFSET(p)

\* page number of the page that contains the proginfo struct
bl_proginfo_page(p) == PICOCALC_PROGINFO_ADDR(p) \div FLASH_PAGE_SIZE

\* a buffer of size bytes that represents the addresses from page start_pg
\* on holds the whole proginfo struct
struct_from_buf(p, start_pg, size) ==
    ~ (\/ start_pg * FLASH_PAGE_SIZE > PICOCALC_PROGINFO_ADDR(p)
       \/ start_pg * FLASH_PAGE_SIZE + size < PICOCALC_PROGINFO_ADDR(p) + SizeofBlInfo(p))

bl_proginfo_clear(p, buf, start_pg, size) ==
    IF struct_from_buf(p, start_pg, size)
    THEN [buf EXCEPT !.magic = ERASED, !.flash_end = AddrPages - 1]
    ELSE buf

bl_proginfo_set(p, buf, start_pg, size, flash_end) ==
    IF struct_from_buf(p, start_pg, size)
    THEN [buf EXCEPT !.magic = PICOCALC_BL_MAGIC, !.flash_end = flash_end]
    ELSE buf

\* the flash array is indexed by page offset from XIP_BASE
bl_proginfo_valid(fl, p) == fl[bl_proginfo_page(p) - XIP_BASE].magic = PICOCALC_BL_MAGIC

\* ------------------------------------------------------------ validator
family_valid(p, family_id) ==
    IF p = "RP2040"
    THEN family_id = "RP2040_FAMILY_ID"
    ELSE family_id \in {"RP2350_ARM_NS_FAMILY_ID", "RP2350_ARM_S_FAMILY_ID", "RP2350_RISCV_FAMILY_ID"}

\* any target address taken
PageAligned_Any(b) == TRUE

\* b->target_addr % 256 == 0
PageAligned(b) == b.target_off = 0

\* the checks of check_generic_block that precede the erratum test
BlockWellFormed(b) ==
    /\ b.magic_ok
    /\ ~ b.not_main_flash
    /\ PageAligned(b)
    /\ b.payload_size = FLASH_PAGE_SIZE
    /\ b.num_blocks # 0
    /\ b.block_no < b.num_blocks

\* the RP2350-E10 workaround block
IsE10Block(b) ==
    /\ b.family_present
    /\ b.file_size = "ABSOLUTE_FAMILY_ID"
    /\ b.block_no = 0
    /\ b.target_pg = E10_ADDR

WrongFamily(p, b) == b.family_present /\ ~ family_valid(p, b.file_size)

\* the range check without its upper bound
OutOfBounds_NoUpper(b, end) == b.target_pg < XIP_BASE

OutOfBounds(b, end) == b.target_pg < XIP_BASE \/ b.target_pg >= end

check_generic_block(p, b, end) ==
    /\ BlockWellFormed(b)
    /\ ~ IsE10Block(b)
    /\ ~ WrongFamily(p, b)
    /\ ~ OutOfBounds(b, end)

\* the side effect of check_generic_block on s.malformed_uf2
malformed_after(b, malformed) ==
    IF BlockWellFormed(b) /\ IsE10Block(b) /\ b.num_blocks # 2 THEN TRUE ELSE malformed

Adj(malformed) == IF malformed THEN 1 ELSE 0

\* st is the cross-block state as it stands when the check runs
check_1st_block(p, st, b, end) ==
    /\ check_generic_block(p, b, end)
    /\ b.block_no = Adj(st.malformed_uf2)
    /\ ~ ((b.target_pg + st.num_blks) % AddrPages > end)

check_block(p, st, b, end) ==
    /\ check_generic_block(p, b, end)
    /\ st.num_blks = b.num_blocks - Adj(st.malformed_uf2)
    /\ st.num_blks_written = b.block_no - Adj(st.malformed_uf2)
    /\ (st.prog_addr + st.num_blks_written) % AddrPages = b.target_pg

\* the end-of-transfer check left out
check_EOT_Always(st) == TRUE

check_EOT(st) == st.num_blks = st.num_blks_written

\* --------------------------------------------------------- flash driver
\* the flash array holds the pages XIP_BASE .. XIP_BASE + NPages - 1
FlashIdx == 0 .. (NPages - 1)

SectorOf(pg) == (pg - XIP_BASE) \div PagesPerSector

\* number of sectors an erase of len pages touches: the length rounded up
SectorsOf(len) == (len + PagesPerSector - 1) \div PagesPerSector

\* size_aligned of the RP2350 FLASH_ERASE, in pages, for size_bytes = 256 * len
SizeAligned2350(len) == (((len + 31) % AddrPages) \div PagesPerSector) * PagesPerSector

\* length the platform's FLASH_ERASE hands to the driver, in pages
EraseLen(p, len) == IF p = "RP2040" THEN len ELSE SizeAligned2350(len)

\* the page at offset q lies in a sector an erase of (addr, len) touches
InErase(q, addr, len) ==
    /\ q \div PagesPerSector >= SectorOf(addr)
    /\ q \div PagesPerSector < SectorOf(addr) + SectorsOf(len)

\* the erase reaches past the end of the flash chip
PastChip(addr, len) == (SectorOf(addr) + SectorsOf(len)) * PagesPerSector > NPages

\* rom_flash_op refuses an erase that is misaligned or leaves the partition
EraseRefused2350(addr, len, end) ==
    \/ (addr - XIP_BASE) % PagesPerSector # 0
    \/ addr + len > end

flash_erase(fl, addr, len) ==
    [q \in FlashIdx |-> IF InErase(q, addr, len) THEN ErasedPage ELSE fl[q]]

flash_program(fl, addr, buf) ==
    [fl EXCEPT ![addr - XIP_BASE] = AndPage(fl[addr - XIP_BASE], buf)]

\* ------------------------------------------------------------ UF2 input
Slots == {ERASED, PICOCALC_BL_MAGIC, 2}
\* image of the pages resident before the first load
OldPage == [d |-> 1, magic |-> 1, flash_end |-> FlashEndPg]

\* the flash_end word a payload carries along with the slot image mg: all
\* ones with an erased slot, the record of a smaller partition with a live
\* magic, zero otherwise
SlotFlashEnd(mg) ==
    IF mg = ERASED THEN AddrPages - 1
    ELSE IF mg = PICOCALC_BL_MAGIC THEN XIP_BASE + PagesPerSector
    ELSE 0

\* a block with good magics; its payload image is 2 outside the slot bytes
Blk(t, off, bn, nb, famp, fam, mg) ==
    [magic_ok |-> TRUE, not_main_flash |-> FALSE, family_present |-> famp,
     target_pg |-> t, target_off |-> off, payload_size |-> FLASH_PAGE_SIZE,
     block_no |-> bn, num_blocks |-> nb, file_size |-> fam,
     data |-> [d |-> 2, magic |-> mg, flash_end |-> SlotFlashEnd(mg)]]

NoBlock == Blk(0, 0, 0, 0, FALSE, "NONE", ERASED)

DeviceFamily(p) == IF p = "RP2040" THEN "RP2040_FAMILY_ID" ELSE "RP2350_ARM_S_FAMILY_ID"

\* page offsets from XIP_BASE a block of the input may target: the stub, the
\* first application page, the last page of sector 0, the first page of
\* sector 1, the last page below flash_end, and flash_end itself
TargetOffsets == {0, 1, PagesPerSector - 1, PagesPerSector,
                  AppSectors * PagesPerSector - 1, AppSectors * PagesPerSector}

\* num_blocks values that make 256 * num_blocks wrap in 32 bits
WrapNumBlocks == {AddrPages - 1, AddrPages}

\* bytes a payload carries at the offset of the proginfo slot: any of the
\* three images when the block targets the proginfo page
SlotsFor(p, t) == IF t = bl_proginfo_page(p) THEN Slots ELSE {2}

ExpectedPg(st) == (st.prog_addr + st.num_blks_written) % AddrPages

ExpectedBlk(p, st) ==
    Blk(ExpectedPg(st), 0, st.num_blks_written + Adj(st.malformed_uf2),
        st.num_blks + Adj(st.malformed_uf2), TRUE, DeviceFamily(p), 2)

DefectsOf(blk) ==
    { [blk EXCEPT !.magic_ok = FALSE],
      [blk EXCEPT !.not_main_flash = TRUE],
      [blk EXCEPT !.target_off = 4],
      [blk EXCEPT !.payload_size = 476],
      [blk EXCEPT !.num_blocks = 0],
      [blk EXCEPT !.family_present = FALSE],
      [blk EXCEPT !.file_size = "OTHER"],
      [blk EXCEPT !.file_size = "ABSOLUTE_FAMILY_ID"] }

\* the blocks the next read of the file may deliver, given the cross-block
\* state st.  Before a block has been written: the well-formed blocks over
\* the targets of interest.  After: the blocks at the expected address, at
\* the first application page and at flash_end.  Always: single-defect
\* variants of a well-formed block, and the erratum block.
InputBlocks(p, st) ==
    LET first == ~ (st.num_blks_written > 0)
        targets == IF first THEN {XIP_BASE + o : o \in TargetOffsets}
                   ELSE {ExpectedPg(st), XIP_BASE + 1, XIP_BASE + AppSectors * PagesPerSector}
        base == IF first THEN Blk(XIP_BASE + 1, 0, 0, MaxBlk, TRUE, DeviceFamily(p), 2)
                ELSE ExpectedBlk(p, st)
    IN  UNION {{Blk(t, 0, bn, nb, TRUE, DeviceFamily(p), mg) : mg \in SlotsFor(p, t)} :
                  t \in targets, bn \in 0 .. MaxBlk, nb \in 1 .. (MaxBlk + 1)}
        \cup (IF first
              THEN {Blk(XIP_BASE + o, 0, 0, nb, TRUE, DeviceFamily(p), 2) :
                        o \in TargetOffsets, nb \in WrapNumBlocks}
              ELSE {ExpectedBlk(p, st)})
        \cup DefectsOf(base)
        \cup {Blk(E10_ADDR, 0, 0, nb, TRUE, "ABSOLUTE_FAMILY_ID", ERASED) : nb \in {2, 3}}

\* ------------------------------------------------------------------ state
VARIABLES
    platform,       \* PICO_RP2040 or PICO_RP2350 build
    flash,          \* the flash chip, by page offset from XIP_BASE
    blinfo,         \* the RAM mirror written by bl_info_set_flash_end
    prog_area_end,  \* uintptr_t prog_area_end
    s,              \* static prog_state_t s
    b,              \* static struct uf2_block _block_buf
    boot2,          \* uint8_t boot2[BOOT2_SIZE] of handle_boot_stage2
    fp,             \* the FILE* is open
    pc,             \* where load_application_from_uf2 stands
    result,         \* what the last load returned
    nread,          \* blocks read from files so far
    loads,          \* load() calls so far
    pre,            \* flash as it was when this load began
    calls,          \* the flash driver calls of this load, in order
    reject_at,      \* Len(calls) when this load first rejected a block, or -1
    acc,            \* the blocks this load accepted, in order
    xip_blk,        \* the file of this load delivered a block for XIP_BASE
    kinds,          \* what became of the blocks this load read, as a set
    opened,         \* this load called fopen
    fileg,          \* the shape of the file of this load, as read so far
    pb,             \* a buffer handed to bl_proginfo_clear / bl_proginfo_set
    st3,            \* the watchdog scratch registers and the run of stage3
    old,            \* the flasher revision that keeps prog_info in a sector
    sh,             \* this load run on the stream without the Skip blocks
                    \* that follow its first accepted block
    boot_end,       \* where stage3 ended after the reboot of a load
    rl              \* a boot of stage3 with its mount loop and RAM loader

vars == <<platform, flash, blinfo, prog_area_end, s, b, boot2, fp, pc, result,
          nread, loads, pre, calls, reject_at, acc, xip_blk, kinds, opened, fileg,
          pb, st3, old, sh, boot_end, rl>>

\* no block of the file read yet; a file that is not of a shape of interest
NoFile == [ok |-> TRUE, e10 |-> FALSE, n |-> 0, base |-> 0, num |-> 0]

OtherFile == [ok |-> FALSE, e10 |-> FALSE, n |-> 1, base |-> 0, num |-> 0]

\* blk is a well-formed block for platform p with the given block_no,
\* num_blocks and target page
GoodBlock(p, blk, bn, nb, t) ==
    /\ blk.magic_ok /\ ~ blk.not_main_flash
    /\ blk.target_off = 0 /\ blk.payload_size = FLASH_PAGE_SIZE
    /\ blk.family_present /\ family_valid(p, blk.file_size)
    /\ blk.block_no = bn /\ blk.num_blocks = nb /\ blk.target_pg = t

\* the file shape after one more block: a file of num well-formed blocks at
\* consecutive pages inside [XIP_BASE, end), with or without the erratum
\* block in front and counted in num
FileAfter(p, g, blk, end) ==
    LET inside(base, len) == XIP_BASE <= base /\ base + len <= end
        g1 == IF g.n = 0
              THEN IF BlockWellFormed(blk) /\ IsE10Block(blk)
                   THEN [ok |-> TRUE, e10 |-> TRUE, n |-> 1, base |-> 0, num |-> blk.num_blocks]
                   ELSE [ok |-> GoodBlock(p, blk, 0, blk.num_blocks, blk.target_pg)
                                /\ blk.num_blocks >= 1
                                /\ inside(blk.target_pg, blk.num_blocks),
                         e10 |-> FALSE, n |-> 1, base |-> blk.target_pg, num |-> blk.num_blocks]
              ELSE IF g.e10 /\ g.n = 1
                   THEN [g EXCEPT !.ok = g.ok /\ GoodBlock(p, blk, 1, g.num, blk.target_pg)
                                         /\ inside(blk.target_pg, g.num - 1),
                                  !.n = 2, !.base = blk.target_pg]
                   ELSE [g EXCEPT !.ok = g.ok /\ g.n < g.num
                                         /\ GoodBlock(p, blk, g.n, g.num,
                                                       g.base + g.n - (IF g.e10 THEN 1 ELSE 0)),
                                  !.n = g.n + 1]
    IN  IF g1.ok THEN g1 ELSE OtherFile

\* no buffer under test, stage3 not modelled, older revision not modelled
NoBuf == [op |-> "off"]

Stage3Off == [pc |-> "off"]

OldOff == [pc |-> "off"]

NoShadow ==
    [s |-> [prog_addr |-> 0, num_blks |-> 0, num_blks_read |-> 0, num_blks_written |-> 0,
            malformed_uf2 |-> FALSE],
     progs |-> <<>>, result |-> "none"]

NotBooted == [end |-> "none", entry_new |-> FALSE]

RamOff == [pc |-> "off"]

ClearedState ==
    [prog_addr |-> 0, num_blks |-> 0, num_blks_read |-> 0, num_blks_written |-> 0,
     malformed_uf2 |-> FALSE]

AppPages == AppSectors * PagesPerSector

\* flash before the first load: the loader above flash_end, the boot
\* stage2 in page 0 on RP2040, and either no application or a committed one
BlankFlash(p) ==
    [q \in FlashIdx |->
        IF q >= AppPages THEN OldPage
        ELSE IF q = 0 /\ p = "RP2040" THEN OldPage
        ELSE ErasedPage]

AppFlash(p) ==
    [q \in FlashIdx |->
        IF q = bl_proginfo_page(p) - XIP_BASE
        THEN [OldPage EXCEPT !.magic = PICOCALC_BL_MAGIC]
        ELSE OldPage]

Init ==
    /\ platform \in Platforms
    /\ flash \in {BlankFlash(platform), AppFlash(platform)}
    /\ blinfo \in {[magic_ok |-> TRUE, flash_end |-> FlashEndPg],
                   [magic_ok |-> FALSE, flash_end |-> 0]}
    /\ prog_area_end = 0
    /\ s = ClearedState
    /\ b = NoBlock
    /\ boot2 = ErasedPage
    /\ fp = FALSE
    /\ pc = "idle"
    /\ result = "none"
    /\ nread = 0
    /\ loads = 0
    /\ pre = flash
    /\ calls = <<>>
    /\ reject_at = -1
    /\ acc = <<>>
    /\ xip_blk = FALSE
    /\ kinds = {}
    /\ opened = FALSE
    /\ fileg = NoFile
    /\ pb = NoBuf
    /\ st3 = Stage3Off
    /\ old = OldOff
    /\ sh = NoShadow
    /\ boot_end = NotBooted
    /\ rl = RamOff

bl_info_get_flash_end(bi) == IF bi.magic_ok THEN bi.flash_end ELSE 0

\* which of the three outcomes a failed check stands for: the first check of
\* check_generic_block / check_1st_block / check_block that fails decides
Outcome(p, st, blk, end, first) ==
    IF ~ blk.magic_ok THEN "Reject"
    ELSE IF blk.not_main_flash THEN "Skip"
    ELSE IF ~ BlockWellFormed(blk) THEN "Reject"
    ELSE IF IsE10Block(blk) THEN "Skip"
    ELSE IF WrongFamily(p, blk) THEN "Skip"
    ELSE IF OutOfBounds(blk, end) THEN "Reject"
    ELSE IF first /\ check_1st_block(p, st, blk, end) THEN "Accept"
    ELSE IF ~ first /\ check_block(p, st, blk, end) THEN "Accept"
    ELSE "Reject"

\* what became of a block: accepted, rejected, or skipped and why
ReadKind(p, st, blk, end, first) ==
    LET out == Outcome(p, st, blk, end, first)
    IN  IF out # "Skip" THEN out
        ELSE IF blk.not_main_flash THEN "NotMainFlash"
        ELSE IF IsE10Block(blk) THEN "E10"
        ELSE "WrongFamily"

NoteReject(out) == IF out = "Reject" /\ reject_at = -1 THEN Len(calls) ELSE reject_at

\* FLASH_ERASE and FLASH_PROG call the driver as they are entered: neither
\* macro masks interrupts around the call
IrqMasked(op) == FALSE

\* a driver call as issued: req is the length FLASH_ERASE was given, len the
\* length the driver got (pages); off and bytes are the byte offset of a
\* programmed address within its page and the byte count programmed;
\* readback is the page as it reads once the call has returned
EraseCall(addr, req, len) ==
    [op |-> "erase", kind |-> "erase", addr |-> addr, off |-> 0, req |-> req, len |-> len,
     bytes |-> 0, buf |-> ErasedPage, readback |-> ErasedPage,
     irq_masked |-> IrqMasked("erase")]

ProgCall(kind, addr, off, buf, fl) ==
    [op |-> "prog", kind |-> kind, addr |-> addr, off |-> off, req |-> 1,
     len |-> FLASH_PAGE_SIZE \div FLASH_PAGE_SIZE, bytes |-> FLASH_PAGE_SIZE, buf |-> buf,
     readback |-> IF addr - XIP_BASE \in FlashIdx
                  THEN flash_program(fl, addr, buf)[addr - XIP_BASE] ELSE buf,
     irq_masked |-> IrqMasked("prog")]

\* -------------------------------------------- what stage3 does at a boot
NoCmd == [ok |-> FALSE, mode |-> "none", arg |-> 0]

read_bootmode(key) ==
    IF key \in {"KEY_UP", "KEY_F1", "KEY_F5"} THEN "BOOT_SD"
    ELSE IF key \in {"KEY_DOWN", "KEY_F3"} THEN "BOOT_UPDATE"
    ELSE "BOOT_DEFAULT"

\* the application launched whatever flash holds
launch_application_unchecked(p, valid, chain_ok) == TRUE

\* launch_application does not return: RP2040 jumps if bl_proginfo_valid(),
\* RP2350 if rom_chain_image accepts the image of the app partition
launch_application(p, valid, chain_ok) == IF p = "RP2040" THEN valid ELSE chain_ok

\* main of stage3: the mode it settles on
Stage3Mode(p, key, cmd, part_ok) ==
    LET mode == IF cmd.ok THEN cmd.mode ELSE read_bootmode(key)
    IN  IF p = "RP2350" /\ ~ part_ok THEN "BOOT_UPDATE" ELSE mode

\* main of stage3: where it ends
Stage3End(p, mode, cmd, valid, chain_ok, sd_ok, load_ok) ==
    IF mode = "BOOT_UPDATE" THEN "bootsel"
    ELSE IF mode = "BOOT_DEFAULT" /\ launch_application(p, valid, chain_ok) THEN "app"
    ELSE IF sd_ok /\ load_ok
         THEN IF cmd.ok /\ cmd.mode = "BOOT_RAM" THEN "ram" ELSE "ui"
         ELSE "bootsel"

\* launch_application_from((void *)XIP_BASE + 0x100): the page stage3 takes
\* the vector table from (RP2350: the start of the app partition)
LaunchPage(p) == IF p = "RP2040" THEN XIP_BASE + 256 \div FLASH_PAGE_SIZE ELSE XIP_BASE

\* the FLASH_PROG calls of a load that program the image, in order
ProgSeq(cs) ==
    LET sel == SelectSeq(cs, LAMBDA c : c.op = "prog" /\ c.kind # "commit")
    IN  [i \in 1 .. Len(sel) |-> [addr |-> sel[i].addr, buf |-> sel[i].buf]]

\* the loop body for a block that is not the first, run on the stream from
\* which the blocks check_generic_block passes over without a word
\* (not-main-flash, erratum pattern, other family) have been removed
ShadowStep(blk) ==
    LET s1 == [sh.s EXCEPT !.num_blks_read = @ + 1,
                           !.malformed_uf2 = malformed_after(blk, @)]
        buf == bl_proginfo_clear(platform, blk.data, blk.target_pg, blk.payload_size)
    IN  IF Outcome(platform, s1, blk, prog_area_end, FALSE) = "Skip" THEN sh
        ELSE IF ~ check_block(platform, s1, blk, prog_area_end) THEN [sh EXCEPT !.s = s1]
        ELSE [sh EXCEPT !.s = [s1 EXCEPT !.num_blks_written = @ + 1],
                        !.progs = Append(@, [addr |-> blk.target_pg, buf |-> buf])]

\* ---------------------------------------------------------------- actions
\* the loader handed over no flash_end
LoaderInvalid_Never(end) == FALSE

LoaderInvalid(end) == end = 0

\* load_application_from_uf2, from its entry to the head of the read loop
Load(open_ok) ==
    /\ pc = "idle"
    /\ loads < MaxLoads
    /\ loads' = loads + 1
    /\ prog_area_end' = bl_info_get_flash_end(blinfo)
    /\ pre' = flash
    /\ calls' = <<>>
    /\ reject_at' = -1
    /\ acc' = <<>>
    /\ xip_blk' = FALSE
    /\ kinds' = {}
    /\ fileg' = NoFile
    /\ opened' = ~ LoaderInvalid(prog_area_end')
    /\ IF LoaderInvalid(prog_area_end') \/ ~ open_ok
       THEN /\ pc' = "done"
            /\ result' = "Failed"
            /\ fp' = FALSE
       ELSE /\ pc' = "read"
            /\ result' = "none"
            /\ fp' = TRUE
    /\ sh' = [s |-> s, progs |-> <<>>, result |-> result']
    /\ boot_end' = NotBooted
    /\ UNCHANGED <<pb, st3, old, rl, platform, flash, blinfo, s, b, boot2, nread>>

\* the stub copied only after the erase
boot2_copy_after_erase(fl) == ErasedPage

\* memcpy(boot2, (void*)XIP_BASE, BOOT2_SIZE)
boot2_copy(fl) == fl[0]

IsForXipBase(blk) == blk.target_pg = XIP_BASE /\ blk.target_off = 0

Accepted(blk, st) ==
    [addr |-> blk.target_pg, data |-> blk.data, num |-> st.num_blks,
     block_no |-> blk.block_no, adj |-> Adj(st.malformed_uf2)]

\* handle_boot_stage2 takes the block: RP2040 and a target in sector 0
InSector0(p, blk) == p = "RP2040" /\ ~ (blk.target_pg >= XIP_BASE + PagesPerSector)

\* address and length (pages) of the erase the first block triggers
FirstEraseAddr(p, blk) == IF InSector0(p, blk) THEN XIP_BASE ELSE blk.target_pg

\* the size argument of that erase, a uint32_t product
FirstEraseSize(p, st, blk) ==
    IF InSector0(p, blk)
    THEN (blk.num_blocks * (blk.payload_size \div FLASH_PAGE_SIZE)) % AddrPages
    ELSE (st.num_blks * (blk.payload_size \div FLASH_PAGE_SIZE)) % AddrPages

FirstEraseLen(p, st, blk) == EraseLen(p, FirstEraseSize(p, st, blk))

\* the loop body for the 1st block, up to the return of the erase
FirstBlockStep(blk) ==
    /\ nread' = nread + 1
    /\ LET s1 == [s EXCEPT !.num_blks_read = @ + 1,
                           !.num_blks = blk.num_blocks - Adj(s.malformed_uf2),
                           !.malformed_uf2 = malformed_after(blk, @)]
           addr == FirstEraseAddr(platform, blk)
           len == FirstEraseLen(platform, s1, blk)
       IN  /\ s' = s1
           /\ reject_at' = NoteReject(Outcome(platform, s1, blk, prog_area_end, TRUE))
           /\ xip_blk' = (xip_blk \/ IsForXipBase(blk))
           /\ kinds' = kinds \cup {ReadKind(platform, s1, blk, prog_area_end, TRUE)}
           /\ fileg' = FileAfter(platform, fileg, blk, prog_area_end)
           /\ IF ~ check_1st_block(platform, s1, blk, prog_area_end)
              THEN UNCHANGED <<flash, b, boot2, pc, result, calls, acc>>
              ELSE /\ b' = blk
                   /\ acc' = Append(acc, Accepted(blk, s1))
                   /\ calls' = Append(calls, EraseCall(addr, FirstEraseSize(platform, s1, blk), len))
                   /\ boot2' = IF InSector0(platform, blk) THEN boot2_copy(flash) ELSE boot2
                   /\ IF platform = "RP2350" /\ EraseRefused2350(addr, len, prog_area_end)
                      THEN /\ pc' = "done"
                           /\ result' = "Failed"
                           /\ UNCHANGED flash
                      ELSE \/ /\ flash' = flash_erase(flash, addr, len)
                              /\ pc' = IF InSector0(platform, blk) THEN "boot2_prog" ELSE "first_prog"
                              /\ UNCHANGED result
                           \/ /\ platform = "RP2040"
                              /\ PastChip(addr, len)
                              /\ pc' = "panic"
                              /\ UNCHANGED <<flash, result>>
    /\ sh' = [s |-> s', progs |-> ProgSeq(calls'), result |-> result']
    /\ UNCHANGED <<pb, st3, old, rl, boot_end, platform, blinfo, prog_area_end, fp, loads, pre, opened>>

\* the payload programmed whatever its target
PayloadAfterStub_Always(blk) == TRUE

\* handle_boot_stage2 programs the payload unless it is the page of the stub
PayloadAfterStub(blk) == blk.target_pg # XIP_BASE

\* handle_boot_stage2: FLASH_PROG(XIP_BASE, boot2, BOOT2_SIZE)
ProgBoot2 ==
    /\ pc = "boot2_prog"
    /\ flash' = flash_program(flash, XIP_BASE, boot2)
    /\ calls' = Append(calls, ProgCall("stub", XIP_BASE, 0, boot2, flash))
    /\ IF PayloadAfterStub(b)
       THEN /\ pc' = "first_prog"
            /\ UNCHANGED s
       ELSE /\ pc' = "read"
            /\ s' = [s EXCEPT !.prog_addr = b.target_pg, !.num_blks_written = @ + 1]
    /\ sh' = [sh EXCEPT !.s = s', !.progs = ProgSeq(calls')]
    /\ UNCHANGED <<pb, st3, old, rl, boot_end, platform, blinfo, prog_area_end, b, boot2, fp, result, nread, loads, pre, reject_at, acc, xip_blk, kinds, opened, fileg>>

\* FLASH_PROG(b->target_addr, b->data, FLASH_PAGE_SIZE) of the 1st block
ProgFirst ==
    /\ pc = "first_prog"
    /\ flash' = flash_program(flash, b.target_pg, b.data)
    /\ calls' = Append(calls, ProgCall("payload", b.target_pg, b.target_off, b.data, flash))
    /\ s' = [s EXCEPT !.prog_addr = b.target_pg, !.num_blks_written = @ + 1]
    /\ pc' = "read"
    /\ sh' = [sh EXCEPT !.s = s', !.progs = ProgSeq(calls')]
    /\ UNCHANGED <<pb, st3, old, rl, boot_end, platform, blinfo, prog_area_end, b, boot2, fp, result, nread, loads, pre, reject_at, acc, xip_blk, kinds, opened, fileg>>

\* the loop body for a block that is not the first
NextBlockStep(blk) ==
    /\ nread' = nread + 1
    /\ LET s1 == [s EXCEPT !.num_blks_read = @ + 1,
                           !.malformed_uf2 = malformed_after(blk, @)]
           buf == bl_proginfo_clear(platform, blk.data, blk.target_pg, blk.payload_size)
       IN  /\ reject_at' = NoteReject(Outcome(platform, s1, blk, prog_area_end, FALSE))
           /\ xip_blk' = (xip_blk \/ IsForXipBase(blk))
           /\ kinds' = kinds \cup {ReadKind(platform, s1, blk, prog_area_end, FALSE)}
           /\ fileg' = FileAfter(platform, fileg, blk, prog_area_end)
           /\ IF ~ check_block(platform, s1, blk, prog_area_end)
              THEN /\ s' = s1
                   /\ UNCHANGED <<flash, b, calls, acc>>
              ELSE /\ b' = [blk EXCEPT !.data = buf]
                   /\ acc' = Append(acc, Accepted(blk, s1))
                   /\ flash' = flash_program(flash, blk.target_pg, buf)
                   /\ calls' = Append(calls, ProgCall("payload", blk.target_pg, blk.target_off, buf, flash))
                   /\ s' = [s1 EXCEPT !.num_blks_written = @ + 1]
    /\ sh' = IF acc = <<>>
             THEN [sh EXCEPT !.s = s', !.progs = ProgSeq(calls')]
             ELSE ShadowStep(blk)
    /\ UNCHANGED <<pb, st3, old, rl, boot_end, platform, blinfo, prog_area_end, boot2, fp, pc, result, loads, pre, opened>>

\* fread delivers no block: fclose and the checks after the loop
ReadEOF ==
    /\ pc = "read"
    /\ fp' = FALSE
    /\ IF s.num_blks = 0 \/ ~ check_EOT(s)
       THEN pc' = "done" /\ result' = "Failed"
       ELSE IF platform = "RP2040"
            THEN pc' = "commit" /\ UNCHANGED result
            ELSE pc' = "done" /\ result' = "Loaded"
    /\ sh' = [sh EXCEPT !.result = IF sh.s.num_blks = 0 \/ ~ check_EOT(sh.s)
                                    THEN "Failed" ELSE "Loaded"]
    /\ UNCHANGED <<pb, st3, old, rl, boot_end, platform, flash, blinfo, prog_area_end, s, b, boot2, nread, loads, pre, calls, reject_at, acc, xip_blk, kinds, opened, fileg>>

\* RP2040: reflash the page that contains the proginfo
Commit ==
    /\ pc = "commit"
    /\ LET page == bl_proginfo_page(platform)
           page_copy == bl_proginfo_set(platform, flash[page - XIP_BASE], page, FLASH_PAGE_SIZE, prog_area_end)
       IN  /\ flash' = flash_program(flash, page, page_copy)
           /\ calls' = Append(calls, ProgCall("commit", page, 0, page_copy, flash))
    /\ pc' = "done"
    /\ result' = "Loaded"
    /\ UNCHANGED <<pb, st3, old, rl, sh, boot_end, platform, blinfo, prog_area_end, s, b, boot2, fp, nread, loads, pre, reject_at, acc, xip_blk, kinds, opened, fileg>>

\* load_firmware_by_path after a failure: back in the UI, statics kept
BackToUI ==
    /\ pc = "done"
    /\ result = "Failed"
    /\ pc' = "idle"
    /\ UNCHANGED <<pb, st3, old, rl, sh, boot_end, platform, flash, blinfo, prog_area_end, s, b, boot2, fp, result, nread, loads, pre, calls, reject_at, acc, xip_blk, kinds, opened, fileg>>

\* load_firmware_by_path after success: reboot(); the UI starts afresh
Reboot ==
    /\ pc = "done"
    /\ result = "Loaded"
    /\ pc' = "idle"
    /\ s' = ClearedState
    /\ b' = NoBlock
    /\ fp' = FALSE
    /\ prog_area_end' = 0
    /\ pre' = flash
    /\ calls' = <<>>
    /\ acc' = <<>>
    /\ reject_at' = -1
    /\ xip_blk' = FALSE
    /\ kinds' = {}
    /\ opened' = FALSE
    /\ fileg' = NoFile
    /\ sh' = NoShadow
    /\ \E chain_ok, ui_ok \in BOOLEAN :
          boot_end' = [end |-> Stage3End(platform, Stage3Mode(platform, "none", NoCmd, TRUE), NoCmd,
                                         bl_proginfo_valid(flash, platform), chain_ok, ui_ok, ui_ok),
                       entry_new |-> \E i \in 1 .. Len(acc) : acc[i].addr = LaunchPage(platform)]
    /\ UNCHANGED <<pb, st3, old, rl, platform, flash, blinfo, boot2, result, nread, loads>>

ReadFirstBlock ==
    /\ pc = "read"
    /\ ~ (s.num_blks_written > 0)
    /\ nread < MaxReads
    /\ \E blk \in InputBlocks(platform, s) : FirstBlockStep(blk)

ReadNextBlock ==
    /\ pc = "read"
    /\ s.num_blks_written > 0
    /\ nread < MaxReads
    /\ \E blk \in InputBlocks(platform, s) : NextBlockStep(blk)

Next ==
    \/ \E open_ok \in BOOLEAN : Load(open_ok)
    \/ ReadFirstBlock
    \/ ProgBoot2
    \/ ProgFirst
    \/ ReadNextBlock
    \/ ReadEOF
    \/ Commit
    \/ BackToUI
    \/ Reboot

Spec == Init /\ [][Next]_vars

TypeOK ==
    /\ platform \in Platforms
    /\ pc \in {"idle", "read", "boot2_prog", "first_prog", "commit", "done", "panic"}
    /\ result \in {"none", "Loaded", "Failed"}
    /\ \A q \in FlashIdx : flash[q].d \in 0 .. 3 /\ flash[q].magic \in 0 .. 3

\* ----------------------------------------------------------------- claims
InLoad == pc \in {"boot2_prog", "first_prog", "read", "commit"}

Returned == pc = "done"

EraseIssued == \E i \in 1 .. Len(calls) : calls[i].op = "erase"

\* one past the last page of the sectors an erase call covers
EraseEnd(c) == c.addr + SectorsOf(c.len) * PagesPerSector

\* flash holds the payload of an accepted block (the proginfo slot of the
\* proginfo page aside, which the flasher masks and the commit fills)
PageHolds(a) ==
    /\ flash[a.addr - XIP_BASE].d = a.data.d
    /\ \/ a.addr = bl_proginfo_page(platform)
       \/ /\ flash[a.addr - XIP_BASE].magic = a.data.magic
          /\ flash[a.addr - XIP_BASE].flash_end = a.data.flash_end

ImageComplete ==
    /\ acc # <<>>
    /\ Len(acc) = acc[1].num
    /\ \A i \in 1 .. Len(acc) : acc[i].addr = acc[1].addr + (i - 1) /\ PageHolds(acc[i])

\* C1: after load() returns, proginfo_valid() is true only if flash holds the
\* complete image of the file just loaded, or the load changed nothing.
C1_ValidOnlyIfComplete ==
    Returned => (bl_proginfo_valid(flash, platform) => (ImageComplete \/ flash = pre))

\* C2: at every boundary between flash driver calls, from the return of the
\* first erase until the commit, proginfo_valid() is false.
C2_InvalidDuringUpdate ==
    (InLoad /\ EraseIssued) => ~ bl_proginfo_valid(flash, platform)

\* C3: at every boundary between flash driver calls of a load, the boot stub
\* (page 0 on RP2040) and the region from flash_end up hold their pre-load
\* contents.
C3_StubAndLoaderIntact ==
    InLoad => /\ platform = "RP2040" => flash[0] = pre[0]
              /\ \A q \in FlashIdx : q >= prog_area_end - XIP_BASE => flash[q] = pre[q]

\* C4: every program call targets a page a with XIP_BASE <= a and
\* a + 256 <= flash_end.
C4_ProgramInBounds ==
    \A i \in 1 .. Len(calls) :
        calls[i].op = "prog" =>
            /\ XIP_BASE <= calls[i].addr
            /\ calls[i].addr + calls[i].len <= prog_area_end

\* C4 witness: a block was programmed at exactly flash_end - 256.
C4_Witness ==
    \E i \in 1 .. Len(calls) :
        /\ calls[i].op = "prog"
        /\ calls[i].kind = "payload"
        /\ calls[i].addr = prog_area_end - 1

\* C5: every erase call starts sector-aligned at or above XIP_BASE and, its
\* length rounded up to sectors, ends at or below flash_end; no page of the
\* region from flash_end up is erased.
C5_EraseAlignedInBounds ==
    /\ \A i \in 1 .. Len(calls) :
          calls[i].op = "erase" =>
              /\ XIP_BASE <= calls[i].addr
              /\ (calls[i].addr - XIP_BASE) % PagesPerSector = 0
              /\ EraseEnd(calls[i]) <= prog_area_end
    /\ InLoad => \A q \in FlashIdx : q >= prog_area_end - XIP_BASE => flash[q] = pre[q]

\* C6: every page programmed with a UF2 payload lies inside the range of an
\* erase call issued earlier in the same load.
C6_EraseBeforeProgram ==
    \A i \in 1 .. Len(calls) :
        calls[i].kind = "payload" =>
            \E j \in 1 .. (i - 1) :
                /\ calls[j].op = "erase"
                /\ calls[j].addr <= calls[i].addr
                /\ calls[i].addr + 1 <= EraseEnd(calls[j])

\* C7: after a load that issued an erase and did not return Loaded,
\* proginfo_valid() is false.
C7_FailedLoadInvalid ==
    (Returned /\ result # "Loaded" /\ EraseIssued) => ~ bl_proginfo_valid(flash, platform)

\* the erase of this load covered sector 0
ErasedSector0 ==
    \E i \in 1 .. Len(calls) :
        calls[i].op = "erase" /\ SectorOf(calls[i].addr) = 0 /\ calls[i].len > 0

\* C8: on RP2040, after a load whose erase includes sector 0 and whose file
\* has no block for XIP_BASE, page 0 is what it was before the load.
C8_StubPreserved ==
    (Returned /\ platform = "RP2040" /\ ErasedSector0 /\ ~ xip_blk) => flash[0] = pre[0]

\* C8 witness: such a load returned after sector 0 was erased and a payload
\* was programmed into it.
C8_Witness ==
    /\ Returned /\ platform = "RP2040" /\ ErasedSector0 /\ ~ xip_blk
    /\ flash[1] # pre[1]
    /\ \E i \in 1 .. Len(calls) : calls[i].kind = "payload"

\* C9: once a block is rejected, no later block of the file is programmed
\* and the load does not return Loaded.
C9_RejectAborts ==
    reject_at >= 0 =>
        /\ \A i \in 1 .. Len(calls) : i > reject_at => calls[i].kind # "payload"
        /\ result # "Loaded"

\* C10: every load starts from cleared cross-block state.
C10_StateClearedAtLoad ==
    [][(pc = "idle" /\ pc' = "read") =>
          /\ s'.prog_addr = 0
          /\ s'.num_blks = 0
          /\ s'.num_blks_written = 0
          /\ s'.malformed_uf2 = FALSE]_vars

\* the payload program calls of this load, in order
RECURSIVE PayloadAddrs(_)
PayloadAddrs(cs) ==
    IF cs = <<>> THEN <<>>
    ELSE IF Head(cs).kind = "payload" THEN <<Head(cs).addr>> \o PayloadAddrs(Tail(cs))
    ELSE PayloadAddrs(Tail(cs))

CommitDone == calls # <<>> /\ calls[Len(calls)].kind = "commit"

\* C11: load() returns Loaded only when every block of the first block's
\* (effective) num_blocks was accepted and programmed, the end of the file was
\* reached and, on RP2040, the commit was done and the record in flash has
\* the live magic and the flash_end read at the start of the load.
C11_SuccessMeansComplete ==
    (Returned /\ result = "Loaded") =>
        /\ acc # <<>>
        /\ Len(acc) = acc[1].num
        /\ PayloadAddrs(calls) = [i \in 1 .. Len(acc) |-> acc[i].addr]
        /\ ~ fp
        /\ platform = "RP2040" =>
              /\ CommitDone
              /\ flash[bl_proginfo_page(platform) - XIP_BASE].magic = PICOCALC_BL_MAGIC
              /\ flash[bl_proginfo_page(platform) - XIP_BASE].flash_end = prog_area_end

\* the proginfo slot of a page image reads all 0xFF
SlotErased(pg) == pg.magic = ERASED /\ pg.flash_end = AddrPages - 1

\* C12: when the commit program call is issued, the proginfo slot in flash
\* reads all 0xFF, and after the commit the slot equals the record overlaid
\* (live magic, flash_end of this load) exactly.
C12_SlotErasedAtCommit ==
    LET slot == flash[bl_proginfo_page(platform) - XIP_BASE]
    IN  /\ pc = "commit" => SlotErased(slot)
        /\ (Returned /\ CommitDone) =>
              /\ slot.magic = PICOCALC_BL_MAGIC
              /\ slot.flash_end = prog_area_end

\* load() returned out of the read loop, the file still open
EarlyReturn == Returned /\ fp

\* the file of this load is N well-formed blocks at consecutive pages inside
\* [XIP_BASE, flash_end): it was read to its end, or load() returned early
\* on a beginning of such a file
WholeGoodFile ==
    /\ fileg.ok /\ ~ fileg.e10 /\ fileg.n >= 1
    /\ fileg.n = fileg.num \/ EarlyReturn

\* flash page q reads back as a payload of the input (the proginfo slot of
\* the proginfo page aside)
ReadsBackPayload(q) ==
    /\ flash[q].d = 2
    /\ \/ q = bl_proginfo_page(platform) - XIP_BASE
       \/ flash[q].magic = 2 /\ flash[q].flash_end = SlotFlashEnd(2)

\* C13: a file of N well-formed blocks at consecutive pages inside
\* [XIP_BASE, flash_end) makes load() return Loaded, and flash[base, base+N)
\* reads back as the N payloads.
C13_RoundTrip ==
    (Returned /\ WholeGoodFile) =>
        /\ result = "Loaded"
        /\ \A i \in 0 .. (fileg.num - 1) : ReadsBackPayload(fileg.base + i - XIP_BASE)

\* C14: the blocks b_0, b_1, ... one load accepts satisfy b_i.target_addr =
\* b_0.target_addr + 256 * i and b_i.block_no = i + malformed adjustment, and
\* their payloads are programmed in the order of acceptance.
C14_BlockSequence ==
    LET pa == PayloadAddrs(calls)
    IN  /\ \A i \in 1 .. Len(acc) :
              /\ acc[i].addr = acc[1].addr + (i - 1)
              /\ acc[i].block_no = (i - 1) + acc[i].adj
        /\ \A i, j \in 1 .. Len(pa) :
              i < j => \E m, n \in 1 .. Len(acc) :
                          m < n /\ acc[m].addr = pa[i] /\ acc[n].addr = pa[j]

\* load() returned after the read loop ran to the end of the stream (or the
\* file could not be opened): the file is closed
StreamEnded == Returned /\ ~ fp

\* this load accepted as many blocks as its first accepted block announced
CountSatisfied == acc # <<>> /\ Len(acc) = acc[1].num

\* C15: when the stream ends with fewer blocks accepted than num_blocks, the
\* load fails and does no commit; when the count is satisfied, it succeeds.
C15_TruncationFails ==
    StreamEnded =>
        /\ ~ CountSatisfied => (result = "Failed" /\ ~ CommitDone)
        /\ CountSatisfied => result = "Loaded"

\* every block this load read was well formed and carried a family id that
\* is not valid for this device
OnlyForeignBlocks == kinds = {"WrongFamily"}

\* C16: a well-formed UF2 none of whose blocks is for this device makes
\* load() return WrongPlatform, a result of its own.
C16_WrongPlatformReported ==
    (StreamEnded /\ OnlyForeignBlocks) => result = "WrongPlatform"

C18_NoFlashEndNoLoad ==
    (loads > 0 /\ bl_info_get_flash_end(blinfo) = 0) =>
        /\ ~ opened /\ ~ fp
        /\ calls = <<>> /\ flash = pre
        /\ pc \in {"done", "idle"} /\ result = "Failed"

\* C18 witness: load() was called twice without a flash_end in the mirror.
C18_Witness ==
    /\ loads = MaxLoads /\ Returned
    /\ ~ blinfo.magic_ok /\ prog_area_end = 0

\* the file of this load is the erratum block with num_blocks N + 1 and N
\* well-formed blocks numbered 1 .. N at consecutive pages: it was read to
\* its end, or load() returned early on a beginning of such a file
WholeE10File ==
    /\ fileg.ok /\ fileg.e10 /\ fileg.num >= 2 /\ fileg.n >= 2
    /\ fileg.n = fileg.num \/ EarlyReturn

\* C19: such a file is loaded: the effective total is N, the N payloads are
\* programmed at their targets in order, and nothing else is programmed
\* from the file.
C19_E10FileLoads ==
    (Returned /\ WholeE10File) =>
        /\ result = "Loaded"
        /\ s.num_blks = fileg.num - 1
        /\ PayloadAddrs(calls) = [i \in 1 .. (fileg.num - 1) |-> fileg.base + i - 1]

\* a load on RP2040 whose first accepted block targets XIP_BASE returned Loaded
LoadedAtXipBase ==
    /\ Returned /\ result = "Loaded" /\ platform = "RP2040"
    /\ acc # <<>> /\ acc[1].addr = XIP_BASE

StubCalls == {i \in 1 .. Len(calls) : calls[i].kind = "stub"}

\* C20 as stated: on RP2040, when the first accepted block targets XIP_BASE,
\* the resident stub is not re-programmed and after a successful load page 0
\* holds that block's payload.
C20_StubFromUf2 ==
    LoadedAtXipBase => (StubCalls = {} /\ flash[0] = acc[1].data)

\* C20 amended: on RP2040, when the first accepted block targets XIP_BASE,
\* the resident stub is saved and re-programmed, the block's payload is not
\* programmed, and after a successful load page 0 holds the stub resident
\* before the load.
C20_ResidentStubKept ==
    LoadedAtXipBase =>
        /\ \E i \in StubCalls : calls[i].addr = XIP_BASE /\ calls[i].buf = pre[0]
        /\ \A i \in 1 .. Len(calls) : calls[i].kind = "payload" => calls[i].addr # XIP_BASE
        /\ flash[0] = pre[0]

\* C20 witness: such a load of a two-block image returned Loaded, the payload
\* for XIP_BASE differing from the resident stub.
C20_Witness ==
    /\ LoadedAtXipBase
    /\ Len(acc) = 2
    /\ acc[1].data # pre[0]

\* ------------------------------------------------- C21..C30, the flasher
ProgCalls == {i \in 1 .. Len(calls) : calls[i].op = "prog"}

Mismatch(i) == calls[i].readback # calls[i].buf

\* C23: every page programmed by load() is verified against its source
\* buffer right after the program call returns; a mismatch aborts the load
\* with a failure result and without committing the program-info record.
C23_VerifyAfterProgram ==
    \A i \in ProgCalls :
        Mismatch(i) => /\ i = Len(calls)
                       /\ pc \in {"done", "idle"}
                       /\ result = "Failed"

\* C24: every erase and every program call issued by load() executes with
\* interrupts disabled for the whole duration of the call.
C24_IrqMaskedDuringFlashOps ==
    \A i \in 1 .. Len(calls) : calls[i].irq_masked

\* C27: for every program call issued by load() (UF2 payloads, the
\* re-programmed stub and the commit page) the address is a multiple of 256
\* and the length is exactly 256 bytes.
C27_ProgramPageAligned ==
    \A i \in ProgCalls : calls[i].off = 0 /\ calls[i].bytes = FLASH_PAGE_SIZE

\* a load that programmed the stub, a payload and the commit page
C27_Witness ==
    /\ Returned
    /\ \A k \in {"stub", "payload", "commit"} : \E i \in ProgCalls : calls[i].kind = k

\* the erase calls of this load that the driver carried out
EraseDone ==
    {i \in 1 .. Len(calls) :
        /\ calls[i].op = "erase"
        /\ ~ (platform = "RP2350" /\ EraseRefused2350(calls[i].addr, calls[i].len, prog_area_end))}

\* first sector and one past the last sector of the image the first accepted
\* block announces: [first_addr, first_addr + 256 * num_blocks)
ImageFirstSector == SectorOf(acc[1].addr)

ImageEndSector == (acc[1].addr - XIP_BASE + acc[1].num + PagesPerSector - 1) \div PagesPerSector

\* C29: the sectors erased by a load() are exactly the sectors that
\* intersect [first_addr, first_addr + 256*num_blocks), num_blocks the
\* effective block total, on both platforms and also when the first block
\* lies in sector 0.
C29_ErasedExactlyImageSectors ==
    (acc # <<>> /\ pc # "panic") =>
        /\ EraseDone # {}
        /\ \A i \in EraseDone :
              /\ SectorOf(calls[i].addr) = ImageFirstSector
              /\ SectorOf(calls[i].addr) + SectorsOf(calls[i].len) = ImageEndSector

\* C30: the first-block range check and the erase length are exact for all
\* 32-bit field values: a first block is accepted only if the non-wrapping
\* target_addr + 256*num_blocks is <= flash_end, and the erase length given
\* to FLASH_ERASE equals the non-wrapping 256*num_blocks.
C30_NoWrapInRangeAndLength ==
    (acc # <<>> /\ loads = 1) =>
        /\ acc[1].addr + acc[1].num <= prog_area_end
        /\ \A i \in 1 .. Len(calls) :
              calls[i].op = "erase" => calls[i].req \in {acc[1].num, acc[1].num + acc[1].adj}

\* --------------------------------------- proginfo in a buffer, by bytes
\* Buffers are functions from 0 .. size-1 to bytes; addresses are byte
\* addresses.  The buffers drawn are short and lie around the slot, so
\* start_addr + size stays far below 2^32.
\* bytes of PICOCALC_BL_MAGIC (0xe98cc638), least significant first
MagicBytes == <<56, 198, 140, 233>>

\* the four bytes of a uint32_t, least significant first
WordBytes(w) == [k \in 1 .. 4 |-> (w \div (256 ^ (k - 1))) % 256]

\* sizeof(progbuf->filename) on RP2040; the field is absent on RP2350
FilenameSize(p) == IF p = "RP2040" THEN 20 ELSE 0

\* fnbuf after memset and strlcpy, as far as memcpy copies it
FilenameField(p, filename) ==
    [k \in 1 .. FilenameSize(p) |-> IF k <= Len(filename) THEN filename[k] ELSE 0]

\* struct_from_buf with the test of the end of the buffer dropped
CoversSlot_FromStart(p, start_addr, size) ==
    ~ (start_addr > PICOCALC_PROGINFO_ADDR(p))

\* struct_from_buf returns a pointer: the buffer holds the whole struct
CoversSlot(p, start_addr, size) ==
    ~ (\/ start_addr > PICOCALC_PROGINFO_ADDR(p)
       \/ start_addr + size < PICOCALC_PROGINFO_ADDR(p) + SizeofBlInfo(p))

\* index in the buffer of byte k (from 0) of the struct progbuf points at
ProgbufIdx(p, start_addr, k) == PICOCALC_PROGINFO_ADDR(p) - start_addr + k

\* stores through progbuf; a store past the end of the buffer is not a
\* store into the buffer
StoreAt(buf, p, start_addr, bytes) ==
    [i \in DOMAIN buf |->
        IF \E k \in 0 .. (Len(bytes) - 1) : i = ProgbufIdx(p, start_addr, k)
        THEN bytes[i - ProgbufIdx(p, start_addr, 0) + 1]
        ELSE buf[i]]

\* the struct as bl_proginfo_set leaves it: magic, flash_end, filename
RecordBytes(p, flash_end, filename) ==
    MagicBytes \o WordBytes(flash_end) \o FilenameField(p, filename)

bl_proginfo_set_bytes(p, buf, start_addr, size, flash_end, filename) ==
    IF ~ CoversSlot(p, start_addr, size)
    THEN [ret |-> FALSE, buf |-> buf]
    ELSE [ret |-> TRUE, buf |-> StoreAt(buf, p, start_addr, RecordBytes(p, flash_end, filename))]

\* a memset of the magic word only
ClearLen_MagicOnly(p) == Len(MagicBytes)

\* memset(progbuf, 0xFF, sizeof(struct bl_info_t))
ClearLen(p) == SizeofBlInfo(p)

bl_proginfo_clear_bytes(p, buf, start_addr, size) ==
    IF ~ CoversSlot(p, start_addr, size)
    THEN buf
    ELSE StoreAt(buf, p, start_addr, [k \in 1 .. ClearLen(p) |-> 255])

\* largest distance of a buffer's start from the slot, and largest excess of
\* its size over the struct
MaxShift == 2
MaxExcess == 2

\* the buffers drawn: starts around the slot and at the page of the slot,
\* sizes around the size of the struct and one page
BufStarts(p) ==
    {PICOCALC_PROGINFO_ADDR(p) + dd : dd \in (0 - MaxShift) .. MaxShift}
        \cup {PICOCALC_PROGINFO_ADDR(p) + SizeofBlInfo(p), bl_proginfo_page(p) * FLASH_PAGE_SIZE}

BufSizes(p) ==
    {SizeofBlInfo(p) + dd : dd \in (0 - MaxExcess) .. MaxExcess}
        \cup {1, SizeofBlInfo(p) + 2 * MaxShift, FLASH_PAGE_SIZE}

\* buffer contents: all zero, all ones, or a ramp
Fill(kind, i) == IF kind = "zero" THEN 0 ELSE IF kind = "ones" THEN 255 ELSE (i * 7 + 1) % 256

Filenames == {<<>>, <<65, 46, 85, 70, 50>>, [k \in 1 .. 23 |-> 96 + k]}

FlashEnds == {0, FlashEndPg * FLASH_PAGE_SIZE, 305441741}

\* the state of the flasher at rest, flash aside
FlasherAtRest ==
    /\ sh = NoShadow
    /\ boot_end = NotBooted
    /\ blinfo = [magic_ok |-> FALSE, flash_end |-> 0]
    /\ prog_area_end = 0
    /\ s = ClearedState
    /\ b = NoBlock
    /\ boot2 = ErasedPage
    /\ fp = FALSE
    /\ pc = "idle"
    /\ result = "none"
    /\ nread = 0
    /\ loads = 0
    /\ pre = flash
    /\ calls = <<>>
    /\ reject_at = -1
    /\ acc = <<>>
    /\ xip_blk = FALSE
    /\ kinds = {}
    /\ opened = FALSE
    /\ fileg = NoFile

InitBuf ==
    /\ platform \in Platforms
    /\ flash = BlankFlash(platform)
    /\ FlasherAtRest
    /\ rl = RamOff
    /\ st3 = Stage3Off
    /\ old = OldOff
    /\ \E start \in BufStarts(platform), size \in BufSizes(platform), kind \in {"zero", "ones", "ramp"} :
          pb = [op |-> "none", start_addr |-> start, size |-> size,
                buf |-> [i \in 0 .. (size - 1) |-> Fill(kind, i)],
                out |-> [i \in 0 .. (size - 1) |-> Fill(kind, i)],
                ret |-> FALSE, flash_end |-> 0, filename |-> <<>>]

FlasherUnchanged ==
    UNCHANGED <<platform, flash, blinfo, prog_area_end, s, b, boot2, fp, pc, result,
                nread, loads, pre, calls, reject_at, acc, xip_blk, kinds, opened, fileg,
                sh, boot_end>>

\* bl_proginfo_clear(buffer, start_addr, size)
ClearInBuf ==
    /\ pb.op = "none"
    /\ pb' = [pb EXCEPT !.op = "clear",
                        !.out = bl_proginfo_clear_bytes(platform, pb.buf, pb.start_addr, pb.size)]
    /\ FlasherUnchanged
    /\ UNCHANGED <<st3, old, rl>>

\* bl_proginfo_set(buffer, start_addr, size, flash_end, filename)
SetInBuf(flash_end, filename) ==
    /\ pb.op = "none"
    /\ LET r == bl_proginfo_set_bytes(platform, pb.buf, pb.start_addr, pb.size, flash_end, filename)
       IN  pb' = [pb EXCEPT !.op = "set", !.out = r.buf, !.ret = r.ret,
                            !.flash_end = flash_end, !.filename = filename]
    /\ FlasherUnchanged
    /\ UNCHANGED <<st3, old, rl>>

NextBuf ==
    \/ ClearInBuf
    \/ \E flash_end \in FlashEnds, filename \in Filenames : SetInBuf(flash_end, filename)

SpecBuf == InitBuf /\ [][NextBuf]_vars

\* the byte at index i of the buffer stands for an address of the slot
InSlot(i) ==
    /\ pb.start_addr + i >= PICOCALC_PROGINFO_ADDR(platform)
    /\ pb.start_addr + i < PICOCALC_PROGINFO_ADDR(platform) + SizeofBlInfo(platform)

Overlaps == \E i \in DOMAIN pb.buf : InSlot(i)

WholeSlotInBuf ==
    \A a \in 0 .. (SizeofBlInfo(platform) - 1) :
        \E i \in DOMAIN pb.buf : pb.start_addr + i = PICOCALC_PROGINFO_ADDR(platform) + a

SlotBytesCleared ==
    \A i \in DOMAIN pb.buf : pb.out[i] = IF InSlot(i) THEN 255 ELSE pb.buf[i]

\* C25 as stated: for every buffer whose range overlaps the slot, fully or
\* partially, the clear sets to 0xFF exactly the bytes that represent slot
\* addresses; with no overlap the buffer is unchanged.
C25_ClearsOverlap ==
    pb.op = "clear" => (DOMAIN pb.out = DOMAIN pb.buf /\ SlotBytesCleared)

\* C25, amended: when the buffer covers the whole slot the clear sets to
\* 0xFF exactly the bytes of the slot and changes no other byte; a buffer
\* that holds only part of the slot, or none of it, is left unchanged.
C25_ClearsCoveredSlot ==
    pb.op = "clear" =>
        IF WholeSlotInBuf
        THEN DOMAIN pb.out = DOMAIN pb.buf /\ SlotBytesCleared
        ELSE pb.out = pb.buf

\* a clear that changed a buffer which holds the slot and bytes around it
C25_Witness ==
    /\ pb.op = "clear"
    /\ WholeSlotInBuf
    /\ pb.out # pb.buf
    /\ \E i \in DOMAIN pb.buf : ~ InSlot(i)

\* offset a of the slot, as the buffer holds it after the call
SlotByte(a) == pb.out[PICOCALC_PROGINFO_ADDR(platform) - pb.start_addr + a]

\* the slot reads as the record: the magic, flash_end, and on RP2040 the
\* first 20 characters of the filename padded with zero bytes
SlotHoldsRecord ==
    /\ \A a \in 0 .. 3 : SlotByte(a) = MagicBytes[a + 1]
    /\ SlotByte(4) + 256 * SlotByte(5) + 65536 * SlotByte(6) + 16777216 * SlotByte(7) = pb.flash_end
    /\ platform = "RP2040" =>
          \A a \in 8 .. 27 :
              SlotByte(a) = IF a - 7 <= Len(pb.filename) THEN pb.filename[a - 7] ELSE 0

\* C26: bl_proginfo_set returns false and leaves the buffer unchanged when
\* the buffer does not cover the whole slot; when it does, it returns true,
\* writes the record (magic, flash_end, filename) into the slot bytes and
\* changes no byte outside the slot.
C26_SetWritesRecordOnly ==
    pb.op = "set" =>
        IF WholeSlotInBuf
        THEN /\ pb.ret
             /\ DOMAIN pb.out = DOMAIN pb.buf
             /\ SlotHoldsRecord
             /\ \A i \in DOMAIN pb.buf : ~ InSlot(i) => pb.out[i] = pb.buf[i]
        ELSE ~ pb.ret /\ pb.out = pb.buf

\* a record with a filename longer than the field written into a page buffer
C26_Witness ==
    /\ pb.op = "set"
    /\ pb.ret
    /\ pb.size = FLASH_PAGE_SIZE
    /\ platform = "RP2040"
    /\ Len(pb.filename) > 20
    /\ pb.flash_end = FlashEndPg * FLASH_PAGE_SIZE

\* ------------------------------------------------ stage3 and the bootcmd
\* runs of stage3 in one behaviour
MaxBoots == 3

BootModes == {"BOOT_DEFAULT", "BOOT_SD", "BOOT_UPDATE", "BOOT_RAM"}

\* values of the command's argument
BootArgs == {0, 1}

\* what read_i2c_kbd delivers within the half second
Keys == {"none", "KEY_UP", "KEY_F1", "KEY_F5", "KEY_DOWN", "KEY_F3", "KEY_ENTER"}

\* watchdog_hw->scratch[0 .. 2], as the tuple <<tag, mode, arg>>
bl_stage3_command(mode, arg) == <<PICOCALC_BL_MAGIC, mode, arg>>

\* the tag left as it was
TagAfterTake_Kept(tag) == tag

\* watchdog_hw->scratch[0] = 0
TagAfterTake(tag) == 0

\* bl_get_command: what it returns, and the registers as it leaves them
bl_get_command(scratch) ==
    IF scratch[1] = PICOCALC_BL_MAGIC
    THEN [ret |-> [ok |-> TRUE, mode |-> scratch[2], arg |-> scratch[3]],
          scratch |-> <<TagAfterTake(scratch[1]), scratch[2], scratch[3]>>]
    ELSE [ret |-> NoCmd, scratch |-> scratch]

InitBoot ==
    /\ platform \in Platforms
    /\ flash \in {BlankFlash(platform), AppFlash(platform)}
    /\ FlasherAtRest
    /\ rl = RamOff
    /\ pb = NoBuf
    /\ old = OldOff
    /\ st3 = [pc |-> "reset", scratch |-> <<0, 0, 0>>, boots |-> 0,
              lastset |-> NoCmd, takes |-> <<>>,
              cmd |-> NoCmd, mode |-> "none", chain_ok |-> TRUE, ui_ok |-> TRUE,
              src |-> [mode |-> NoCmd, arg |-> NoCmd],
              took |-> [mode |-> NoCmd, arg |-> NoCmd]]

\* main of stage3, from reset to the jump or to reset_usb_boot
Stage3Main(key, part_ok, chain_ok, sd_ok, load_ok) ==
    /\ st3.pc = "reset"
    /\ st3.boots < MaxBoots
    /\ LET got == bl_get_command(st3.scratch)
           mode == Stage3Mode(platform, key, got.ret, part_ok)
       IN  st3' = [st3 EXCEPT
                     !.pc = Stage3End(platform, mode, got.ret, bl_proginfo_valid(flash, platform),
                                      chain_ok, sd_ok, load_ok),
                     !.scratch = got.scratch,
                     !.boots = @ + 1,
                     !.takes = Append(@, got.ret),
                     !.cmd = got.ret, !.mode = mode, 
                     !.took = IF got.ret.ok THEN st3.src ELSE [mode |-> NoCmd, arg |-> NoCmd],
                     !.chain_ok = chain_ok, !.ui_ok = (sd_ok /\ load_ok)]
    /\ FlasherUnchanged
    /\ UNCHANGED <<pb, old, rl>>

\* the UI, or what stage3 started, calls bl_stage3_command(mode, arg)
SetCommand(mode, arg) ==
    /\ st3.pc \in {"ui", "app", "ram"}
    /\ st3' = [st3 EXCEPT !.scratch = bl_stage3_command(mode, arg),
                          !.lastset = [ok |-> TRUE, mode |-> mode, arg |-> arg],
                          !.src = [mode |-> [ok |-> TRUE, mode |-> mode, arg |-> arg],
                                   arg |-> [ok |-> TRUE, mode |-> mode, arg |-> arg]],
                          !.takes = <<>>]
    /\ FlasherUnchanged
    /\ UNCHANGED <<pb, old, rl>>

\* a warm reset (watchdog_reboot, or leaving BOOTSEL): the scratch registers
\* keep their values
WarmReset ==
    /\ st3.pc \in {"ui", "app", "ram", "bootsel"}
    /\ st3' = [st3 EXCEPT !.pc = "reset"]
    /\ FlasherUnchanged
    /\ UNCHANGED <<pb, old, rl>>

NextBoot ==
    \/ \E key \in Keys, part_ok, chain_ok, sd_ok, load_ok \in BOOLEAN :
          Stage3Main(key, part_ok, chain_ok, sd_ok, load_ok)
    \/ \E mode \in BootModes, arg \in BootArgs : SetCommand(mode, arg)
    \/ WarmReset

SpecBoot == InitBoot /\ [][NextBoot]_vars

\* bl_stage3_command stores scratch[1], scratch[2] and then scratch[0]: the
\* registers when a reset falls after the first k of the three stores
bl_stage3_command_cut(scratch, mode, arg, k) ==
    <<IF k >= 3 THEN PICOCALC_BL_MAGIC ELSE scratch[1],
      IF k >= 1 THEN mode ELSE scratch[2],
      IF k >= 2 THEN arg ELSE scratch[3]>>

\* bl_stage3_command(mode, arg) cut short by a reset after k stores
SetCommandCut(mode, arg, k) ==
    /\ st3.pc \in {"ui", "app", "ram"}
    /\ LET call == [ok |-> TRUE, mode |-> mode, arg |-> arg]
       IN  st3' = [st3 EXCEPT !.scratch = bl_stage3_command_cut(st3.scratch, mode, arg, k),
                              !.src = [mode |-> IF k >= 1 THEN call ELSE @.mode,
                                       arg |-> IF k >= 2 THEN call ELSE @.arg],
                              !.lastset = call,
                              !.takes = <<>>,
                              !.pc = "reset"]
    /\ FlasherUnchanged
    /\ UNCHANGED <<pb, old, rl>>

NextCut ==
    \/ NextBoot
    \/ \E mode \in BootModes, arg \in BootArgs, k \in 1 .. 2 : SetCommandCut(mode, arg, k)

SpecCut == InitBoot /\ [][NextCut]_vars

\* C21: a command written by one bl_stage3_command is returned by at most
\* one bl_get_command: the first take after the set returns exactly the
\* (mode, arg) that was set, every later take without a set in between
\* returns none, across any number of resets.
C21_CommandTakenOnce ==
    \A i \in 1 .. Len(st3.takes) :
        st3.takes[i] = IF i = 1 THEN st3.lastset ELSE NoCmd

\* a command set, taken by the next run of stage3 and not by the one after
C21_Witness ==
    /\ st3.lastset.ok
    /\ Len(st3.takes) >= 2
    /\ st3.takes[1].ok

Stage3Ran == st3.pc \in {"app", "ui", "ram", "bootsel"}

\* C22 as stated: on a reset where the boot mode is DEFAULT or there is no
\* command, stage3 launches the flashed application if and only if
\* proginfo_valid() is true, and otherwise enters the loader UI, on both
\* platforms.
C22_LaunchIffProginfoValid ==
    (Stage3Ran /\ (~ st3.cmd.ok \/ st3.cmd.mode = "BOOT_DEFAULT")) =>
        IF bl_proginfo_valid(flash, platform) THEN st3.pc = "app" ELSE st3.pc = "ui"

\* C22, amended: when the mode stage3 settles on is BOOT_DEFAULT, on RP2040
\* it launches the flashed application if and only if proginfo_valid() is
\* true, on RP2350 if and only if rom_chain_image accepts the image of the
\* app partition; when it does not launch, it enters the loader UI if the
\* SD card mounts and the UI loads, and BOOTSEL otherwise.
C22_LaunchDecision ==
    (Stage3Ran /\ st3.mode = "BOOT_DEFAULT") =>
        /\ st3.pc = "app" <=> IF platform = "RP2040" THEN bl_proginfo_valid(flash, platform)
                                                     ELSE st3.chain_ok
        /\ st3.pc # "app" => st3.pc = IF st3.ui_ok THEN "ui" ELSE "bootsel"

\* RP2350, no command, no key: the application launched although
\* proginfo_valid() is false
C22_Witness ==
    /\ Stage3Ran
    /\ st3.mode = "BOOT_DEFAULT"
    /\ platform = "RP2350"
    /\ ~ st3.cmd.ok
    /\ ~ bl_proginfo_valid(flash, platform)
    /\ st3.pc = "app"

\* ------------------- the flasher revision with prog_info in its own sector
\* (src/uf2.c of that revision, prog_info in bldetect.c).  Page numbers as
\* above.  A page of flash is one 2-bit cell: 3 erased, 1 a page whose first
\* four words pass the vector-table test of check_prog_info (stack pointer in
\* RAM, reset vector odd and inside the image), 2 any other content, 0 what
\* programming one over the other leaves.
\* sectors of the program area of that revision, load() calls and blocks read
OldAreaSectors == 17
MaxOldLoads == 2
MaxOldReads == 2

VectorTable == 1
OtherContent == 2

PROG_AREA_BEGIN == XIP_BASE
PROG_AREA_END == XIP_BASE + OldAreaSectors * PagesPerSector
PROG_AREA_SIZE == PROG_AREA_END - PROG_AREA_BEGIN

OldFlashIdx == 0 .. (OldAreaSectors * PagesPerSector - 1)

\* XIP_BASE + 0x10000, the prog_addr of the incomplete-flash marker
MARKER_ADDR == XIP_BASE + 256

\* a uint32_t of all ones, as a page number
ALL_ONES == AddrPages - 1

\* _prog_info_record = {0}
ZeroRecord == [prog_addr |-> 0, size |-> 0]

\* set_prog_info: flash_range_program of the record page, with no erase
\* before it: the page ends as the AND of what it held and the new record
set_prog_info(rec, prog_addr, size) ==
    [prog_addr |-> BitAnd(rec.prog_addr, prog_addr), size |-> BitAnd(rec.size, size)]

\* clear_prog_info: flash_range_erase of the sector of the record
clear_prog_info == [prog_addr |-> ALL_ONES, size |-> ALL_ONES]

check_prog_info(rec, fl) ==
    /\ ~ (rec.prog_addr < PROG_AREA_BEGIN \/ rec.prog_addr >= PROG_AREA_END)
    /\ ~ (rec.size = 0 \/ rec.size > PROG_AREA_SIZE)
    /\ fl[rec.prog_addr - XIP_BASE] = VectorTable

sector_index(pg) == (pg - XIP_BASE) \div PagesPerSector

old_check_generic_block(blk) ==
    /\ blk.magic_ok
    /\ blk.num_blocks # 0
    /\ blk.block_no < blk.num_blocks
    /\ ~ (blk.target_pg < PROG_AREA_BEGIN \/ blk.target_pg >= PROG_AREA_END)

old_check_1st_block(blk) ==
    /\ old_check_generic_block(blk)
    /\ blk.block_no = 0
    /\ ~ (blk.target_pg + blk.num_blocks > PROG_AREA_END)

old_check_block(st, blk) ==
    /\ old_check_generic_block(blk)
    /\ st.num_blks = blk.num_blocks
    /\ st.num_blks_flashed = blk.block_no
    /\ st.prog_addr + st.num_blks_flashed = blk.target_pg

old_check_EOT(st) == st.num_blks = st.num_blks_flashed

OldBlk(t, bn, nb, d, ok) ==
    [magic_ok |-> ok, target_pg |-> t, block_no |-> bn, num_blocks |-> nb, data |-> d]

\* the blocks a file may deliver next: a first block in sector 0 or at the
\* address of the marker, the block that continues the image, a bad block
OldInputBlocks(st) ==
    {OldBlk(t, 0, nb, d, TRUE) :
        t \in {XIP_BASE, MARKER_ADDR}, nb \in 1 .. 2, d \in {VectorTable, OtherContent}}
    \cup {OldBlk(st.prog_addr + st.num_blks_flashed, st.num_blks_flashed, st.num_blks, d, TRUE) :
            d \in {VectorTable, OtherContent}}
    \cup {OldBlk(XIP_BASE, 0, 1, OtherContent, FALSE)}

OldClearedState == [prog_addr |-> 0, num_blks |-> 0, num_blks_read |-> 0, num_blks_flashed |-> 0]

\* flash of a device that never loaded: the boot stage2 in page 0
OldBlankFlash == [q \in OldFlashIdx |-> IF q = 0 THEN OtherContent ELSE ERASED]

InitOld ==
    /\ platform = "RP2040"
    /\ flash = BlankFlash(platform)
    /\ FlasherAtRest
    /\ rl = RamOff
    /\ pb = NoBuf
    /\ st3 = Stage3Off
    /\ old = [pc |-> "idle", rec |-> ZeroRecord, flash |-> OldBlankFlash,
              s |-> OldClearedState, b |-> OldBlk(0, 0, 0, ERASED, FALSE),
              boot2 |-> ERASED, result |-> "none", loads |-> 0, marked |-> FALSE]

\* load_application_from_uf2 of that revision, up to the head of the loop
OldLoad(open_ok) ==
    /\ old.pc = "idle"
    /\ old.loads < MaxOldLoads
    /\ old' = IF ~ open_ok
              THEN [old EXCEPT !.pc = "done", !.result = "Failed", !.loads = @ + 1,
                               !.marked = FALSE]
              ELSE [old EXCEPT !.pc = "read", !.result = "none", !.loads = @ + 1,
                               !.marked = TRUE,
                               !.rec = set_prog_info(@, MARKER_ADDR, ALL_ONES),
                               !.s = OldClearedState]
    /\ FlasherUnchanged
    /\ UNCHANGED <<pb, st3, rl>>

\* the 1st block: the checks, the copy of the boot stage2 and FLASH_ERASE
OldReadFirst ==
    /\ old.pc = "read"
    /\ ~ (old.s.num_blks_flashed > 0)
    /\ old.s.num_blks_read < MaxOldReads
    /\ \E blk \in OldInputBlocks(old.s) :
          LET s1 == [old.s EXCEPT !.num_blks_read = @ + 1]
              first_sector == sector_index(blk.target_pg)
              last_sector == sector_index(blk.target_pg + blk.num_blocks - 1)
          IN  old' = IF ~ old_check_1st_block(blk)
                     THEN [old EXCEPT !.s = s1]
                     ELSE [old EXCEPT
                             !.s = s1, !.b = blk, !.pc = "first_prog",
                             !.boot2 = IF first_sector = 0 THEN old.flash[0] ELSE @,
                             !.flash = [q \in OldFlashIdx |->
                                          IF /\ q \div PagesPerSector >= first_sector
                                             /\ q \div PagesPerSector <= last_sector
                                          THEN ERASED ELSE old.flash[q]]]
    /\ FlasherUnchanged
    /\ UNCHANGED <<pb, st3, rl>>

\* FLASH_PROG: flash_range_program, then verify_flash_crc32
OldProgram(fl, pg, buf) == [fl EXCEPT ![pg - XIP_BASE] = And2(@, buf)]

OldVerify(fl, pg, buf) == fl[pg - XIP_BASE] = buf

\* the FLASH_PROG calls of the 1st block
OldProgFirst ==
    /\ old.pc = "first_prog"
    /\ LET in0 == sector_index(old.b.target_pg) = 0
           f1 == IF in0 THEN OldProgram(old.flash, XIP_BASE, old.boot2) ELSE old.flash
           ok1 == in0 => OldVerify(f1, XIP_BASE, old.boot2)
           payload == ~ in0 \/ old.b.target_pg # XIP_BASE
           f2 == IF ok1 /\ payload THEN OldProgram(f1, old.b.target_pg, old.b.data) ELSE f1
           ok2 == ok1 /\ (payload => OldVerify(f2, old.b.target_pg, old.b.data))
       IN  old' = IF ok2
                  THEN [old EXCEPT !.flash = f2, !.pc = "clear"]
                  ELSE [old EXCEPT !.flash = f2, !.pc = "done", !.result = "Failed"]
    /\ FlasherUnchanged
    /\ UNCHANGED <<pb, st3, rl>>

\* clear_prog_info() and the bookkeeping of the 1st block
OldClear ==
    /\ old.pc = "clear"
    /\ old' = [old EXCEPT !.rec = clear_prog_info, !.pc = "read",
                          !.s = [@ EXCEPT !.prog_addr = old.b.target_pg,
                                          !.num_blks = old.b.num_blocks,
                                          !.num_blks_flashed = @ + 1]]
    /\ FlasherUnchanged
    /\ UNCHANGED <<pb, st3, rl>>

\* the loop body for a block that is not the first
OldReadNext ==
    /\ old.pc = "read"
    /\ old.s.num_blks_flashed > 0
    /\ old.s.num_blks_read < MaxOldReads
    /\ \E blk \in OldInputBlocks(old.s) :
          LET s1 == [old.s EXCEPT !.num_blks_read = @ + 1]
              f1 == OldProgram(old.flash, blk.target_pg, blk.data)
          IN  old' = IF ~ old_check_block(s1, blk)
                     THEN [old EXCEPT !.s = s1]
                     ELSE IF OldVerify(f1, blk.target_pg, blk.data)
                          THEN [old EXCEPT !.s = [s1 EXCEPT !.num_blks_flashed = @ + 1],
                                           !.b = blk, !.flash = f1]
                          ELSE [old EXCEPT !.s = s1, !.b = blk, !.flash = f1,
                                           !.pc = "done", !.result = "Failed"]
    /\ FlasherUnchanged
    /\ UNCHANGED <<pb, st3, rl>>

\* fread delivers no block: fclose, the checks after the loop and the final
\* set_prog_info
OldEOF ==
    /\ old.pc = "read"
    /\ old' = IF old.s.num_blks = 0 \/ ~ old_check_EOT(old.s)
              THEN [old EXCEPT !.pc = "done", !.result = "Failed"]
              ELSE [old EXCEPT !.pc = "done", !.result = "Loaded",
                               !.rec = set_prog_info(@, old.s.prog_addr + BOOT2_SIZE \div FLASH_PAGE_SIZE,
                                                     old.s.num_blks)]
    /\ FlasherUnchanged
    /\ UNCHANGED <<pb, st3, rl>>

\* back in the menu, or rebooted into it
OldReturn ==
    /\ old.pc = "done"
    /\ old' = [old EXCEPT !.pc = "idle"]
    /\ FlasherUnchanged
    /\ UNCHANGED <<pb, st3, rl>>

NextOld ==
    \/ \E open_ok \in BOOLEAN : OldLoad(open_ok)
    \/ OldReadFirst
    \/ OldProgFirst
    \/ OldClear
    \/ OldReadNext
    \/ OldEOF
    \/ OldReturn

SpecOld == InitOld /\ [][NextOld]_vars

\* between the marker and the final set_prog_info of a load
OldFlashing == old.pc \in {"read", "first_prog", "clear"}

\* C28: in the revision that keeps prog_info in its own sector, from the
\* incomplete-flash marker written at the start of a load until the final
\* set_prog_info, check_prog_info() is false under NOR program semantics, so
\* a reset in between does not launch the application; prog_info becomes
\* valid only after all blocks have been written and verified.
C28_MarkerInvalidates ==
    /\ OldFlashing => ~ check_prog_info(old.rec, old.flash)
    /\ (old.pc = "done" /\ old.marked /\ old.result = "Failed")
          => ~ check_prog_info(old.rec, old.flash)


\* ------------------------------------------------ bl_proginfo_filename
\* the whole array copied, zero bytes included
strlcpy_whole(src, size) == src

\* strlcpy(dst, src, size): the characters of src before its first zero
\* byte, size - 1 of them at most
strlcpy(src, size) ==
    LET stops == {k \in 1 .. Len(src) : src[k] = 0}
        n == IF stops = {} THEN Len(src) ELSE (CHOOSE k \in stops : \A j \in stops : k <= j) - 1
    IN  SubSeq(src, 1, IF n < size - 1 THEN n ELSE size - 1)

\* bl_proginfo_filename() when the slot reads as the bytes rec: the string
\* returned, or ok = FALSE for NULL
bl_proginfo_filename(p, rec) ==
    IF p = "RP2040" /\ SubSeq(rec, 1, Len(MagicBytes)) = MagicBytes
    THEN [ok |-> TRUE,
          name |-> strlcpy(SubSeq(rec, Len(rec) - FilenameSize(p) + 1, Len(rec)),
                           FilenameSize(p) + 1)]
    ELSE [ok |-> FALSE, name |-> <<>>]

\* ---------------------------------------- stage3: mount and RAM loader
\* RAM addresses and sizes are in 32-bit words, uint32_t sums taken modulo
\* WordsMod
MaxRamReads == 3
MaxRamBlk == 2

WordsMod == 1073741824
SRAM_BASE == 134217728
SRAM_END(p) == IF p = "RP2040" THEN 134285312 ELSE 134350848
\* SRAM_END - 0x2000
RamLimit(p) == SRAM_END(p) - 8192 \div 4
\* UF2_BLOCK_SIZE
RAM_BLOCK_WORDS == 256 \div 4
\* sizeof(b->data): the 476 bytes between the header and magic_end
DATA_WORDS == 476 \div 4
\* 0x10FFFF00
RAM_E10_ADDR == 71303104
\* for (int retry = 5; retry > 0; retry--)
MOUNT_RETRIES == 5

RamClearedState == [prog_addr |-> 0, num_blks |-> 0, num_blks_read |-> 0, num_blks_written |-> 0]

NoCopy == [addr |-> 0, size |-> 0, done |-> FALSE]

RamBlk(target, payload, block_no, num_blocks, magic_ok, family) ==
    [target_addr |-> target, payload_size |-> payload, block_no |-> block_no,
     num_blocks |-> num_blocks, magic_ok |-> magic_ok, family |-> family]

\* check_generic_block of the RAM loader; family is "none" when
\* UF2_FLAG_FAMILY_ID_PRESENT is clear
ram_check_generic_block(p, blk) ==
    /\ blk.magic_ok
    /\ blk.num_blocks # 0
    /\ blk.block_no < blk.num_blocks
    /\ ~ (blk.family \notin {"none", "own"})
    /\ ~ (blk.family = "ABSOLUTE_FAMILY_ID" /\ blk.block_no = 0 /\ blk.num_blocks = 2
          /\ blk.target_addr = RAM_E10_ADDR)
    /\ ~ (blk.target_addr < SRAM_BASE \/ blk.target_addr >= RamLimit(p))

ram_check_1st_block(p, blk) ==
    /\ ram_check_generic_block(p, blk)
    /\ blk.block_no = 0
    /\ ~ ((blk.target_addr + ((RAM_BLOCK_WORDS * blk.num_blocks) % WordsMod)) % WordsMod > RamLimit(p))

ram_check_block(p, st, blk) ==
    /\ ram_check_generic_block(p, blk)
    /\ st.num_blks = blk.num_blocks
    /\ st.num_blks_written = blk.block_no
    /\ (st.prog_addr + ((RAM_BLOCK_WORDS * st.num_blks_written) % WordsMod)) % WordsMod = blk.target_addr

\* any count of blocks written passes for a loaded image
ram_load_result_Any(st) == st.num_blks # 0

\* the return value of the RAM loader once its loop has ended
ram_load_result(st) == st.num_blks # 0 /\ st.num_blks = st.num_blks_written

RamTargets(p) ==
    {SRAM_BASE - RAM_BLOCK_WORDS, SRAM_BASE, SRAM_BASE + RAM_BLOCK_WORDS,
     RamLimit(p) - RAM_BLOCK_WORDS, RamLimit(p)}

RamPayloads == {RAM_BLOCK_WORDS, DATA_WORDS, DATA_WORDS + 1}

\* what pf_read can deliver as one block
RamInputBlocks(p) ==
    {RamBlk(t, RAM_BLOCK_WORDS, n, nb, TRUE, "own") :
        t \in RamTargets(p), n \in 0 .. MaxRamBlk - 1, nb \in 1 .. MaxRamBlk}
    \cup {RamBlk(SRAM_BASE, pl, 0, 1, TRUE, "none") : pl \in RamPayloads}
    \cup {RamBlk(RamLimit(p) - RAM_BLOCK_WORDS, pl, 0, 1, TRUE, "own") : pl \in RamPayloads}
    \cup {RamBlk(SRAM_BASE, RAM_BLOCK_WORDS, 0, 1, FALSE, "own"),
          RamBlk(SRAM_BASE, RAM_BLOCK_WORDS, 0, 0, TRUE, "own"),
          RamBlk(SRAM_BASE, RAM_BLOCK_WORDS, 0, 1, TRUE, "other"),
          RamBlk(RAM_E10_ADDR, RAM_BLOCK_WORDS, 0, 2, TRUE, "ABSOLUTE_FAMILY_ID")}

InitRam ==
    /\ platform \in Platforms
    /\ flash \in {BlankFlash(platform), AppFlash(platform)}
    /\ FlasherAtRest
    /\ pb = NoBuf
    /\ st3 = Stage3Off
    /\ old = OldOff
    /\ rl = [pc |-> "reset", mode |-> "none", retry |-> 0, mounts |-> 0, mounted |-> FALSE,
             s |-> RamClearedState, cp |-> NoCopy, nread |-> 0, ret |-> "none"]

\* main of stage3 up to the mount loop
RamBoot(key, cmd, part_ok, chain_ok) ==
    /\ rl.pc = "reset"
    /\ LET mode == Stage3Mode(platform, key, cmd, part_ok)
       IN  rl' = [rl EXCEPT
                    !.mode = mode,
                    !.retry = MOUNT_RETRIES,
                    !.pc = IF mode = "BOOT_UPDATE" THEN "bootsel"
                           ELSE IF mode = "BOOT_DEFAULT"
                                   /\ launch_application(platform, bl_proginfo_valid(flash, platform), chain_ok)
                                THEN "app"
                           ELSE "mount"]
    /\ FlasherUnchanged
    /\ UNCHANGED <<pb, st3, old>>

\* one round of the mount loop; after it, pf_open of the RAM loader
RamMount(mount_ok, open_ok) ==
    /\ rl.pc = "mount"
    /\ rl.retry > 0
    /\ rl' = [rl EXCEPT
                !.mounts = @ + 1,
                !.mounted = mount_ok,
                !.retry = IF mount_ok THEN @ ELSE @ - 1,
                !.ret = IF mount_ok /\ ~ open_ok THEN "false" ELSE @,
                !.pc = IF mount_ok THEN (IF open_ok THEN "load" ELSE "bootsel")
                       ELSE IF rl.retry - 1 > 0 THEN "mount" ELSE "bootsel"]
    /\ FlasherUnchanged
    /\ UNCHANGED <<pb, st3, old>>

\* the loop has ended: the return value and what main does with it
RamLoadEnd(st) ==
    [ret |-> IF ram_load_result(st) THEN "true" ELSE "false",
     pc |-> IF ram_load_result(st) THEN "ram" ELSE "bootsel"]

\* pf_read delivers a whole block: the loop body
RamRead(blk) ==
    /\ rl.pc = "load"
    /\ rl.nread < MaxRamReads
    /\ LET s1 == [rl.s EXCEPT !.num_blks_read = @ + 1]
           ok == IF s1.num_blks_written > 0 THEN ram_check_block(platform, s1, blk)
                                            ELSE ram_check_1st_block(platform, blk)
           s2 == IF ~ ok THEN s1
                 ELSE IF s1.num_blks_written > 0
                      THEN [s1 EXCEPT !.num_blks_written = @ + 1]
                      ELSE [s1 EXCEPT !.prog_addr = blk.target_addr,
                                      !.num_blks = blk.num_blocks,
                                      !.num_blks_written = @ + 1]
           brk == ok /\ s2.num_blks = s2.num_blks_written
       IN  rl' = [rl EXCEPT
                    !.s = s2,
                    !.nread = @ + 1,
                    !.cp = IF ok THEN [addr |-> blk.target_addr, size |-> blk.payload_size,
                                       done |-> TRUE]
                           ELSE @,
                    !.ret = IF brk THEN RamLoadEnd(s2).ret ELSE @,
                    !.pc = IF brk THEN RamLoadEnd(s2).pc ELSE @]
    /\ FlasherUnchanged
    /\ UNCHANGED <<pb, st3, old>>

\* pf_read fails or delivers less than a block
RamEOF ==
    /\ rl.pc = "load"
    /\ rl' = [rl EXCEPT !.ret = RamLoadEnd(rl.s).ret, !.pc = RamLoadEnd(rl.s).pc]
    /\ FlasherUnchanged
    /\ UNCHANGED <<pb, st3, old>>

NextRam ==
    \/ \E key \in Keys, mode \in BootModes, ok, part_ok, chain_ok \in BOOLEAN :
          RamBoot(key, IF ok THEN [ok |-> TRUE, mode |-> mode, arg |-> 0] ELSE NoCmd,
                  part_ok, chain_ok)
    \/ \E mount_ok, open_ok \in BOOLEAN : RamMount(mount_ok, open_ok)
    \/ \E blk \in RamInputBlocks(platform) : RamRead(blk)
    \/ RamEOF

SpecRam == InitRam /\ [][NextRam]_vars

\* ------------------------------------------------------------- C31..C38
\* C31: a load returns the result, and has issued the FLASH_PROG calls, of
\* the same load run on the stream without the not-main-flash, erratum and
\* other-family blocks that follow its first accepted block
C31_SkipsAbsorbed ==
    Returned => /\ result = sh.result
                /\ ProgSeq(calls) = sh.progs

\* C32: whatever store of bl_stage3_command a reset falls after, the next
\* bl_get_command returns none or the (mode, arg) of one call of
\* bl_stage3_command: of the call that stored the mode register or of the
\* call that stored the arg register, which are then the same call
C32_TakeWholeOrNone ==
    (st3.pc # "off" /\ st3.cmd.ok) => st3.cmd \in {st3.took.mode, st3.took.arg}

\* C33: every memcpy of the RAM loader writes inside
\* [SRAM_BASE, SRAM_END - 0x2000) and reads no more than the data field of
\* the block holds
C33_RamCopyInBounds ==
    (rl.pc # "off" /\ rl.cp.done) =>
        /\ rl.cp.size <= DATA_WORDS
        /\ SRAM_BASE <= rl.cp.addr
        /\ rl.cp.addr + rl.cp.size <= RamLimit(platform)

\* C34: when load() has returned success and the UI has rebooted with no
\* command pending and no key pressed, stage3 ends in the application, and
\* the page it launches from was programmed by that load
C34_BootsFlashedApp ==
    boot_end.end # "none" => (boot_end.end = "app" /\ boot_end.entry_new)

RamBootEnded == rl.pc \in {"app", "ram", "bootsel"}

\* C35: a boot of stage3 calls pf_mount at most 5 times; it jumps to the
\* image in RAM only after a mount that succeeded and a load that returned
\* true with every block of the image copied; and when it did not launch
\* the application, a failed mount or a failed load ends in BOOTSEL
C35_BootEndings ==
    rl.pc # "off" =>
        /\ rl.mounts <= 5
        /\ rl.pc = "ram" =>
              /\ rl.mounted /\ rl.ret = "true"
              /\ rl.s.num_blks > 0 /\ rl.s.num_blks_written = rl.s.num_blks
        /\ (RamBootEnded /\ rl.pc # "app" /\ (~ rl.mounted \/ rl.ret = "false")) =>
              rl.pc = "bootsel"

\* the card mounted at the fifth attempt, the load failed with a part of
\* the image already copied, and stage3 entered BOOTSEL
C35_Witness ==
    /\ rl.pc = "bootsel"
    /\ rl.mounts = 5 /\ rl.mounted
    /\ rl.ret = "false" /\ rl.s.num_blks_written > 0

\* C36: when load() has returned, the file it opened is closed
C36_FileClosedAtReturn ==
    (Returned /\ opened) => ~ fp

\* the slot as the buffer holds it after the call
SlotRecord == [a \in 1 .. SizeofBlInfo(platform) |-> SlotByte(a - 1)]

NameCut == SubSeq(pb.filename, 1, IF Len(pb.filename) < 20 THEN Len(pb.filename) ELSE 20)

\* the bytes of the record after magic and flash_end: the cut name, then pad
FieldIs(pad) ==
    /\ SizeofBlInfo(platform) - 8 = 20
    /\ \A a \in 8 .. 27 : SlotByte(a) = IF a - 7 <= Len(NameCut) THEN NameCut[a - 7] ELSE pad

\* C37 as stated: the filename field bl_proginfo_set writes is 20 bytes, the
\* first min(length, 20) bytes of the name and then blanks, and
\* bl_proginfo_filename() returns that name when the record is valid.
C37_FieldBlankPadded ==
    (pb.op = "set" /\ pb.ret) =>
        /\ FieldIs(32)
        /\ bl_proginfo_filename(platform, SlotRecord) = [ok |-> TRUE, name |-> NameCut]

\* C37, amended: on RP2040 the filename field bl_proginfo_set writes is 20
\* bytes, the first min(length, 20) bytes of the name and then zero bytes,
\* and bl_proginfo_filename() returns those first min(length, 20)
\* characters when the record is valid; on RP2350 the record has no
\* filename field and bl_proginfo_filename() returns NULL.
C37_FieldZeroPadded ==
    (pb.op = "set" /\ pb.ret) =>
        IF platform = "RP2040"
        THEN /\ FieldIs(0)
             /\ bl_proginfo_filename(platform, SlotRecord) = [ok |-> TRUE, name |-> NameCut]
        ELSE /\ SizeofBlInfo(platform) = 8
             /\ ~ bl_proginfo_filename(platform, SlotRecord).ok

\* RP2040: a name shorter than the field written, padded, and read back
C37_Witness ==
    /\ pb.op = "set" /\ pb.ret
    /\ platform = "RP2040"
    /\ Len(pb.filename) \in 1 .. 19
    /\ SlotByte(27) = 0
    /\ bl_proginfo_filename(platform, SlotRecord).name = pb.filename

\* C38: between the blocks of a load and when it returns, num_blks_written
\* does not exceed num_blks and equals the number of blocks this load has
\* accepted and programmed, so that no block is accepted once the two are
\* equal. A num_blks below 0 stands for the uint32_t 0 - 1; the return on a
\* failed erase, where the block was accepted and not programmed, is left
\* out.
C38_WrittenCountsAccepted ==
    (opened /\ ~ EarlyReturn /\ pc \in {"read", "commit", "done"}) =>
        /\ s.num_blks < 0 \/ s.num_blks_written <= s.num_blks
        /\ s.num_blks_written = Len(acc)

====
